---- MODULE Spec2Model ----
(***************************************************************************)
(* NexusShell theme validator (validate_themes.py; the copy under          *)
(* scripts/tools has the same functions statement for statement).          *)
(*                                                                         *)
(* Three specifications over one set of variables:                         *)
(*   SpecHex       validate_hex_color applied to one input value           *)
(*   SpecValidate  validate_theme_file applied to one artifact             *)
(*   Spec          main(): directory test, scan, sort, validation loop,    *)
(*                 summary and exit status                                 *)
(*                                                                         *)
(* Text is a sequence of one-character strings.  A decoded JSON value is a *)
(* record [t, s, m, l]: t its Python type, s the characters of a str, m    *)
(* the entries of a dict in declared order, l the items of a list.         *)
(***************************************************************************)
EXTENDS Integers, Sequences, FiniteSets, TLC

VARIABLES color_str, hex_pc, hex_result,
          theme_path, vt_pc, vt_result,
          themes_dir_exists, dir, theme_files, idx, total_themes,
          valid_themes, total_warnings, total_errors, output, pc, exit_code

hexVars == <<color_str, hex_pc, hex_result>>
vtVars == <<theme_path, vt_pc, vt_result>>
mainVars == <<themes_dir_exists, dir, theme_files, idx, total_themes,
              valid_themes, total_warnings, total_errors, output, pc, exit_code>>
vars == <<hexVars, vtVars, mainVars>>

(***************************************************************************)
(* Bounds                                                                  *)
(***************************************************************************)
\* longest string over HexAlphabet given to validate_hex_color
MaxStrLen == 8
\* most entries in a colors mapping given to validate_theme_file
MaxColors == 2
\* most ordinary theme files in the directory main() scans
MaxFiles == 4

(***************************************************************************)
(* Characters                                                              *)
(***************************************************************************)
NL == "\n"

Digits == {"0", "1", "2", "3", "4", "5", "6", "7", "8", "9"}

LowerCase == {"a", "b", "c", "d", "e", "f", "g", "h", "i", "j", "k", "l", "m",
              "n", "o", "p", "q", "r", "s", "t", "u", "v", "w", "x", "y", "z"}

UpperCase == {"A", "B", "C", "D", "E", "F", "G", "H", "I", "J", "K", "L", "M",
              "N", "O", "P", "Q", "R", "S", "T", "U", "V", "W", "X", "Y", "Z"}

\* characters str.strip() removes
Whitespace == {" ", "\t", NL}

\* the characters of the model in ascending code point order
AsciiOrder == <<"\t", NL, " ", "!", "#", "-", ".", "/",
                "0", "1", "2", "3", "4", "5", "6", "7", "8", "9", ":", "@",
                "A", "B", "C", "D", "E", "F", "G", "H", "I", "J", "K", "L", "M",
                "N", "O", "P", "Q", "R", "S", "T", "U", "V", "W", "X", "Y", "Z",
                "_",
                "a", "b", "c", "d", "e", "f", "g", "h", "i", "j", "k", "l", "m",
                "n", "o", "p", "q", "r", "s", "t", "u", "v", "w", "x", "y", "z">>

Ord(c) == CHOOSE i \in 1..Len(AsciiOrder) : AsciiOrder[i] = c

(***************************************************************************)
(* Decoded values                                                          *)
(***************************************************************************)
Str(chars) == [t |-> "str", s |-> chars, m |-> <<>>, l |-> <<>>]
Num == [t |-> "int", s |-> <<>>, m |-> <<>>, l |-> <<>>]
Null == [t |-> "NoneType", s |-> <<>>, m |-> <<>>, l |-> <<>>]
Bool == [t |-> "bool", s |-> <<>>, m |-> <<>>, l |-> <<>>]
Dict(entries) == [t |-> "dict", s |-> <<>>, m |-> entries, l |-> <<>>]
List(items) == [t |-> "list", s |-> <<>>, m |-> <<>>, l |-> items]

\* isinstance(v, str), isinstance(v, dict)
IsStr(v) == v.t = "str"
IsDict(v) == v.t = "dict"

\* d[key] for a dict d that has the key
Get(d, key) == LET i == CHOOSE j \in 1..Len(d.m) : d.m[j].k = key IN d.m[i].v

HasKey(d, key) == \E j \in 1..Len(d.m) : d.m[j].k = key

(***************************************************************************)
(* Regular expressions: re.match(r'^...$', s).  In Python '$' matches at   *)
(* the end of the string and also just before a newline that ends it.      *)
(***************************************************************************)
\* the prefixes of s at which '$' matches: s itself and, when s ends with a
\* newline, s without it
DollarEnds(s) ==
    {s} \cup (IF Len(s) > 0 /\ s[Len(s)] = NL THEN {SubSeq(s, 1, Len(s) - 1)} ELSE {})

\* [0-9a-fA-F]
HexDigit == Digits \cup {"a", "b", "c", "d", "e", "f"} \cup {"A", "B", "C", "D", "E", "F"}

\* #[0-9a-fA-F]{6}
HexBody(s) == /\ Len(s) = 7
              /\ s[1] = "#"
              /\ \A i \in 2..7 : s[i] \in HexDigit

\* \d+\.\d+\.\d+   (ASCII digits)
SemverBody(s) ==
    \E i, j \in 1..Len(s) :
        /\ 1 < i /\ i + 1 < j /\ j < Len(s)
        /\ s[i] = "." /\ s[j] = "."
        /\ \A k \in (1..Len(s)) \ {i, j} : s[k] \in Digits

\* [a-zA-Z0-9_-]+
NameBody(s) == /\ Len(s) > 0
               /\ \A i \in 1..Len(s) : s[i] \in (LowerCase \cup UpperCase \cup Digits \cup {"_", "-"})

(***************************************************************************)
(* Format checkers                                                         *)
(***************************************************************************)
validate_hex_color(color_str_) ==
    IF ~IsStr(color_str_) THEN FALSE
    ELSE \E body \in DollarEnds(color_str_.s) : HexBody(body)

validate_semver(version) ==
    IF ~IsStr(version) THEN FALSE
    ELSE \E body \in DollarEnds(version.s) : SemverBody(body)

RECURSIVE LStrip(_)
LStrip(s) == IF s # <<>> /\ Head(s) \in Whitespace THEN LStrip(Tail(s)) ELSE s

RECURSIVE RStrip(_)
RStrip(s) == IF s # <<>> /\ s[Len(s)] \in Whitespace
             THEN RStrip(SubSeq(s, 1, Len(s) - 1)) ELSE s

\* str.strip()
Strip(s) == RStrip(LStrip(s))

(***************************************************************************)
(* Membership and subscript on a decoded value                             *)
(***************************************************************************)
KeyChars(key) ==
    CASE key = "name" -> <<"n", "a", "m", "e">>
      [] key = "version" -> <<"v", "e", "r", "s", "i", "o", "n">>
      [] key = "author" -> <<"a", "u", "t", "h", "o", "r">>
      [] key = "colors" -> <<"c", "o", "l", "o", "r", "s">>

IsSubstring(needle, hay) ==
    \E i \in 1..(Len(hay) - Len(needle) + 1) :
        SubSeq(hay, i, i + Len(needle) - 1) = needle

\* `key in d` raises TypeError when d is not a container
InRaises(d) == d.t \notin {"dict", "list", "str"}

\* `key in d`: a key of a dict, an item of a list, a substring of a str
In(key, d) ==
    CASE d.t = "dict" -> HasKey(d, key)
      [] d.t = "list" -> \E i \in 1..Len(d.l) : d.l[i] = Str(KeyChars(key))
      [] d.t = "str" -> IsSubstring(KeyChars(key), d.s)

\* d[key] with a str key raises TypeError when d is a list or a str
SubscriptRaises(d) == d.t # "dict"

(***************************************************************************)
(* validate_theme_file                                                     *)
(***************************************************************************)
Msg(kind, field) == [kind |-> kind, field |-> field]

\* errors, warnings and the calls of validate_hex_color made so far;
\* raised: an exception left validate_theme_file
NoResult == [raised |-> FALSE, errors |-> <<>>, warnings |-> <<>>, checks |-> <<>>]

Raised == [raised |-> TRUE, errors |-> <<>>, warnings |-> <<>>, checks |-> <<>>]

AddError(st, m) == [st EXCEPT !.errors = Append(@, m)]

AddWarning(st, m) == [st EXCEPT !.warnings = Append(@, m)]

required_fields == <<"name", "version", "author", "colors">>

basic_colors == <<"primary", "background", "foreground">>

RECURSIVE CheckRequired(_, _, _)
CheckRequired(theme_data, fields, st) ==
    IF fields = <<>> THEN st
    ELSE IF InRaises(theme_data) THEN Raised
    ELSE CheckRequired(theme_data, Tail(fields),
            IF ~In(Head(fields), theme_data)
            THEN AddError(st, Msg("missing_required_field", Head(fields)))
            ELSE st)

CheckName(theme_data, st) ==
    IF st.raised THEN st
    ELSE IF ~In("name", theme_data) THEN st
    ELSE IF SubscriptRaises(theme_data) THEN Raised
    ELSE LET name == Get(theme_data, "name") IN
         IF ~IsStr(name) \/ Strip(name.s) = <<>>
         THEN AddError(st, Msg("name_not_nonempty_string", "name"))
         ELSE IF ~\E body \in DollarEnds(name.s) : NameBody(body)
         THEN AddWarning(st, Msg("name_discouraged_chars", "name"))
         ELSE st

CheckVersion(theme_data, st) ==
    IF st.raised THEN st
    ELSE IF ~In("version", theme_data) THEN st
    ELSE IF SubscriptRaises(theme_data) THEN Raised
    ELSE IF ~validate_semver(Get(theme_data, "version"))
         THEN AddError(st, Msg("invalid_version", "version"))
         ELSE st

CheckAuthor(theme_data, st) ==
    IF st.raised THEN st
    ELSE IF ~In("author", theme_data) THEN st
    ELSE IF SubscriptRaises(theme_data) THEN Raised
    ELSE LET author == Get(theme_data, "author") IN
         IF ~IsStr(author) \/ Strip(author.s) = <<>>
         THEN AddError(st, Msg("author_not_nonempty_string", "author"))
         ELSE st

BasicColorStepAbsentIsError(colors, color, st) ==
    IF ~HasKey(colors, color)
    THEN AddError(st, Msg("missing_recommended_color", color))
    ELSE LET checked == [st EXCEPT !.checks = Append(@, [pass |-> "basic", role |-> color])] IN
         IF ~validate_hex_color(Get(colors, color))
         THEN AddError(checked, Msg("invalid_color", color))
         ELSE checked

\* one iteration of `for color in basic_colors`
BasicColorStep(colors, color, st) ==
    IF ~HasKey(colors, color)
    THEN AddWarning(st, Msg("missing_recommended_color", color))
    ELSE LET checked == [st EXCEPT !.checks = Append(@, [pass |-> "basic", role |-> color])] IN
         IF ~validate_hex_color(Get(colors, color))
         THEN AddError(checked, Msg("invalid_color", color))
         ELSE checked

RECURSIVE BasicColorPass(_, _, _)
BasicColorPass(colors, roles, st) ==
    IF roles = <<>> THEN st
    ELSE BasicColorPass(colors, Tail(roles), BasicColorStep(colors, Head(roles), st))

AllColorStepSkipsBasic(entry, st) ==
    IF \E i \in 1..Len(basic_colors) : basic_colors[i] = entry.k THEN st
    ELSE LET checked == [st EXCEPT !.checks = Append(@, [pass |-> "all", role |-> entry.k])] IN
         IF ~validate_hex_color(entry.v)
         THEN AddError(checked, Msg("invalid_color", entry.k))
         ELSE checked

\* one iteration of `for color_name, color_value in colors.items()`
AllColorStep(entry, st) ==
    LET checked == [st EXCEPT !.checks = Append(@, [pass |-> "all", role |-> entry.k])] IN
    IF ~validate_hex_color(entry.v)
    THEN AddError(checked, Msg("invalid_color", entry.k))
    ELSE checked

RECURSIVE AllColorPass(_, _)
AllColorPass(items, st) ==
    IF items = <<>> THEN st
    ELSE AllColorPass(Tail(items), AllColorStep(Head(items), st))

\* as if colors = theme_data.get('colors', {})
CheckColorsDefaultEmpty(theme_data, st) ==
    IF st.raised THEN st
    ELSE IF SubscriptRaises(theme_data) THEN
         (IF In("colors", theme_data) THEN Raised ELSE st)
    ELSE LET colors == IF HasKey(theme_data, "colors") THEN Get(theme_data, "colors")
                       ELSE Dict(<<>>) IN
         IF ~IsDict(colors)
         THEN AddError(st, Msg("colors_not_object", "colors"))
         ELSE AllColorPass(colors.m, BasicColorPass(colors, basic_colors, st))

CheckColors(theme_data, st) ==
    IF st.raised THEN st
    ELSE IF ~In("colors", theme_data) THEN st
    ELSE IF SubscriptRaises(theme_data) THEN Raised
    ELSE LET colors == Get(theme_data, "colors") IN
         IF ~IsDict(colors)
         THEN AddError(st, Msg("colors_not_object", "colors"))
         ELSE AllColorPass(colors.m, BasicColorPass(colors, basic_colors, st))

\* an artifact on disk: read is what open() and json.load() do with it
\* ("ok", "json_error": JSONDecodeError, "io_error": any other exception),
\* data the decoded value when read is "ok"
Artifact(read, data) == [read |-> read, data |-> data]

\* as if the version block stood before the name block
validate_theme_file_version_first(art) ==
    IF art.read = "json_error"
    THEN AddError(NoResult, Msg("json_decode_error", ""))
    ELSE IF art.read = "io_error"
    THEN AddError(NoResult, Msg("file_read_error", ""))
    ELSE CheckColors(art.data,
           CheckAuthor(art.data,
             CheckName(art.data,
               CheckVersion(art.data,
                 CheckRequired(art.data, required_fields, NoResult)))))

validate_theme_file(art) ==
    IF art.read = "json_error"
    THEN AddError(NoResult, Msg("json_decode_error", ""))
    ELSE IF art.read = "io_error"
    THEN AddError(NoResult, Msg("file_read_error", ""))
    ELSE CheckColors(art.data,
           CheckAuthor(art.data,
             CheckVersion(art.data,
               CheckName(art.data,
                 CheckRequired(art.data, required_fields, NoResult)))))

(***************************************************************************)
(* main(): corpus scan                                                     *)
(***************************************************************************)
\* a < b as Python compares str: by code point, a proper prefix first
RECURSIVE StrLess(_, _)
StrLess(a, b) ==
    IF b = <<>> THEN FALSE
    ELSE IF a = <<>> THEN TRUE
    ELSE IF Head(a) # Head(b) THEN Ord(Head(a)) < Ord(Head(b))
    ELSE StrLess(Tail(a), Tail(b))

\* Path.__lt__ for two entries of the same directory
PathLess(p, q) == StrLess(p.name, q.name)

JsonSuffix == <<".", "j", "s", "o", "n">>

SchemaName == <<"t", "h", "e", "m", "e", "-", "s", "c", "h", "e", "m", "a">> \o JsonSuffix

\* themes_dir.glob("*.json"): the direct children whose name ends in .json
GlobMatch(entry) ==
    /\ ~entry.nested
    /\ Len(entry.name) >= Len(JsonSuffix)
    /\ SubSeq(entry.name, Len(entry.name) - Len(JsonSuffix) + 1, Len(entry.name)) = JsonSuffix

\* json_file.name != "theme-schema.json"
NotSchema(entry) == entry.name # SchemaName

\* the loop that fills theme_files, in listing order
RECURSIVE Collect(_)
Collect(listing) ==
    IF listing = <<>> THEN <<>>
    ELSE IF GlobMatch(Head(listing)) /\ NotSchema(Head(listing))
         THEN <<Head(listing)>> \o Collect(Tail(listing))
         ELSE Collect(Tail(listing))

RECURSIVE Insert(_, _)
Insert(x, sorted) ==
    IF sorted = <<>> THEN <<x>>
    ELSE IF PathLess(x, Head(sorted)) THEN <<x>> \o sorted
    ELSE <<Head(sorted)>> \o Insert(x, Tail(sorted))

RECURSIVE SortFrom(_, _)
SortFrom(rest, sorted) ==
    IF rest = <<>> THEN sorted
    ELSE SortFrom(Tail(rest), Insert(Head(rest), sorted))

SortOmitted(files) == files

\* theme_files.sort()
Sort(files) == SortFrom(files, <<>>)

Reverse(seq) == [i \in 1..Len(seq) |-> seq[Len(seq) + 1 - i]]

\* Path.stem: the name without its last suffix
Stem(name) ==
    LET dots == {i \in 1..Len(name) : name[i] = "."} IN
    IF dots = {} THEN name
    ELSE LET i == CHOOSE d \in dots : \A e \in dots : e <= d IN
         IF i > 1 /\ i < Len(name) THEN SubSeq(name, 1, i - 1) ELSE name

(***************************************************************************)
(* main(): per-artifact accounting and report                              *)
(***************************************************************************)
Line(tag, theme, msg, n) == [tag |-> tag, theme |-> theme, msg |-> msg, n |-> n]

NoMsg == Msg("", "")

RECURSIVE EchoAll(_, _, _)
EchoAll(tag, theme, msgs) ==
    IF msgs = <<>> THEN <<>>
    ELSE <<Line(tag, theme, Head(msgs), 0)>> \o EchoAll(tag, theme, Tail(msgs))

\* what the if / elif / else of the loop body prints for one artifact
Report(theme, errors, warnings) ==
    IF errors # <<>>
    THEN <<Line("invalid", theme, NoMsg, Len(errors))>> \o EchoAll("error", theme, errors)
    ELSE IF warnings # <<>>
    THEN <<Line("valid_with_warnings", theme, NoMsg, Len(warnings))>>
            \o EchoAll("warning", theme, warnings)
    ELSE <<Line("fully_valid", theme, NoMsg, 0)>>

CountValidOnlyFullyValid(valid, errors, warnings) ==
    IF errors # <<>> THEN valid
    ELSE IF warnings # <<>> THEN valid
    ELSE valid + 1

\* valid_themes after the loop body
CountValid(valid, errors, warnings) ==
    IF errors # <<>> THEN valid
    ELSE IF warnings # <<>> THEN valid + 1
    ELSE valid + 1

\* total_errors after the loop body
CountErrors(total, errors, warnings) ==
    IF errors # <<>> THEN total + Len(errors) ELSE total

\* total_warnings after the loop body
CountWarnings(total, errors, warnings) ==
    IF errors # <<>> THEN total
    ELSE IF warnings # <<>> THEN total + Len(warnings)
    ELSE total

\* success_rate >= 80.0, success_rate = valid / total * 100 in floating
\* point; for total < 40 the float comparison agrees with the exact one
RateAtLeast80(valid, total) ==
    IF total > 0 THEN valid * 100 >= 80 * total ELSE FALSE

\* success_rate as printed with one decimal, in tenths of a percent
\* (no ties in the rounding while total < 16)
RateTenths(valid, total) ==
    IF total > 0 THEN (2 * valid * 1000 + total) \div (2 * total) ELSE 0

ExitStatusStrictRate(valid, total) ==
    IF valid = total THEN 0
    ELSE IF total > 0 /\ valid * 100 > 80 * total THEN 0
    ELSE 1

\* the value main() returns after the summary
ExitStatus(valid, total) ==
    IF valid = total THEN 0
    ELSE IF RateAtLeast80(valid, total) THEN 0
    ELSE 1

Summary(total, valid, warnings, errors) ==
    << Line("summary_total", <<>>, NoMsg, total),
       Line("summary_valid", <<>>, NoMsg, valid),
       Line("summary_invalid", <<>>, NoMsg, total - valid),
       Line("summary_warnings", <<>>, NoMsg, warnings),
       Line("summary_errors", <<>>, NoMsg, errors),
       Line("summary_rate", <<>>, NoMsg, RateTenths(valid, total)),
       Line(IF valid = total THEN "verdict_all"
            ELSE IF RateAtLeast80(valid, total) THEN "verdict_most"
            ELSE "verdict_problems", <<>>, NoMsg, 0) >>

\* no value returned (yet)
NoExit == -1

(***************************************************************************)
(* Inputs                                                                  *)
(***************************************************************************)
HexAlphabet == {"#", "a", NL}

HexBase == <<"#", "0", "9", "a", "f", "A", "F">>

ProbeChars == {"0", "9", "a", "f", "A", "F", "g", "G", "#", NL, " ", "/", ":", "@", "_"}

\* every string over HexAlphabet up to MaxStrLen, HexBase with one character
\* replaced, prefixed or appended, and values that are not strings
HexInputs ==
    {Str(s) : s \in UNION {[1..k -> HexAlphabet] : k \in 0..MaxStrLen}}
    \cup {Str([HexBase EXCEPT ![i] = c]) : i \in 1..7, c \in ProbeChars}
    \cup {Str(HexBase \o <<c>>) : c \in ProbeChars}
    \cup {Str(<<c>> \o HexBase) : c \in ProbeChars}
    \cup {Num, Null, Bool, Dict(<<>>), List(<<>>)}

HexOk == <<"#", "1", "e", "9", "0", "f", "f">>

NotAColor == <<"r", "e", "d">>

ColorValues == {Str(HexOk), Str(NotAColor), Str(HexOk \o <<NL>>), Num}

ColorRoles == {"primary", "background", "foreground", "accent"}

\* the mappings of up to MaxColors distinct roles, in every declared order
ColorMaps ==
    UNION {{m \in [1..k -> [k : ColorRoles, v : ColorValues]] :
               \A i, j \in 1..k : i # j => m[i].k # m[j].k} : k \in 0..MaxColors}

Field(key, values) == {<<>>} \cup {<<[k |-> key, v |-> x]>> : x \in values}

NameValues == {Str(<<"o", "c", "e", "a", "n">>), Str(<<"m", "y", " ", "t">>),
               Str(<<" ", NL>>), Num}

VersionValues == {Str(<<"1", ".", "0", ".", "0">>), Str(<<"v", "1", ".", "0">>)}

AuthorValues == {Str(<<"T", "e", "a", "m">>), Str(<<>>)}

ColorsValues == {Dict(m) : m \in ColorMaps} \cup {Str(NotAColor), List(<<>>)}

ThemeRecords ==
    {Dict(n \o v \o a \o c) : n \in Field("name", NameValues),
                              v \in Field("version", VersionValues),
                              a \in Field("author", AuthorValues),
                              c \in Field("colors", ColorsValues)}

\* decoded values that are not mappings
NonMappings ==
    {Num, Null, Bool,
     Str(<<"h", "i">>), Str(<<"n", "a", "m", "e">>), Str(<<"x", "c", "o", "l", "o", "r", "s">>),
     List(<<>>), List(<<Num>>), List(<<Str(<<"n", "a", "m", "e">>)>>),
     List(<<Str(<<"a", "u", "t", "h", "o", "r">>), Num>>)}

Artifacts ==
    {Artifact("ok", d) : d \in ThemeRecords \cup NonMappings}
    \cup {Artifact("json_error", Null), Artifact("io_error", Null)}

ThemeValid ==
    Artifact("ok", Dict(<<[k |-> "name", v |-> Str(<<"o", "c", "e", "a", "n">>)],
                          [k |-> "version", v |-> Str(<<"1", ".", "0", ".", "0">>)],
                          [k |-> "author", v |-> Str(<<"T", "e", "a", "m">>)],
                          [k |-> "colors", v |-> Dict(<<[k |-> "primary", v |-> Str(HexOk)],
                                                        [k |-> "background", v |-> Str(HexOk)],
                                                        [k |-> "foreground", v |-> Str(HexOk)]>>)]>>))

\* no errors, two warnings (name with a space, foreground missing)
ThemeWarnOnly ==
    Artifact("ok", Dict(<<[k |-> "name", v |-> Str(<<"m", "y", " ", "t">>)],
                          [k |-> "version", v |-> Str(<<"1", ".", "0", ".", "0">>)],
                          [k |-> "author", v |-> Str(<<"T", "e", "a", "m">>)],
                          [k |-> "colors", v |-> Dict(<<[k |-> "primary", v |-> Str(HexOk)],
                                                        [k |-> "background", v |-> Str(HexOk)]>>)]>>))

\* three errors (version missing, primary invalid twice), two warnings
ThemeErrWarn ==
    Artifact("ok", Dict(<<[k |-> "name", v |-> Str(<<"o", "c", "e", "a", "n">>)],
                          [k |-> "author", v |-> Str(<<"T", "e", "a", "m">>)],
                          [k |-> "colors", v |-> Dict(<<[k |-> "primary", v |-> Str(NotAColor)]>>)]>>))

ArtMalformed == Artifact("json_error", Null)

ArtNumber == Artifact("ok", Num)

ArtDirectory == Artifact("io_error", Null)

CorpusKinds == {ThemeValid, ThemeWarnOnly, ThemeErrWarn, ArtMalformed, ArtNumber}

Entry(name, nested, art) == [name |-> name, nested |-> nested, art |-> art]

\* names of ordinary theme files, in the order the directory lists them
RegularNames ==
    << <<"d">>, <<"b">>, <<"E">>, <<"a">>, <<"c">>, <<"F">>, <<"g">>, <<"h">> >>

\* directories of k ordinary theme files with every choice of contents
RegularListings ==
    UNION {{[i \in 1..k |-> Entry(RegularNames[i] \o JsonSuffix, FALSE, c[i])] :
               c \in [1..k -> CorpusKinds]} : k \in 0..MaxFiles}

SchemaEntry == Entry(SchemaName, FALSE, Artifact("ok", Dict(<<>>)))

\* entries that are not ordinary theme files: the schema, a name differing
\* from it in case only, a file with another extension, a .json file in a
\* subdirectory, a subdirectory whose own name ends in .json
OtherEntries ==
    << Entry(<<"n", "o", "t", "e", "s", ".", "t", "x", "t">>, FALSE, ThemeValid),
       SchemaEntry,
       Entry(<<"z">> \o JsonSuffix, TRUE, ThemeErrWarn),
       Entry(<<"T", "h", "e", "m", "e", "-", "S", "c", "h", "e", "m", "a">> \o JsonSuffix,
             FALSE, ThemeValid),
       Entry(<<"o", "l", "d">> \o JsonSuffix, FALSE, ArtDirectory) >>

OtherListings == {<<>>, <<SchemaEntry>>, OtherEntries}

Listings == {o \o r : o \in OtherListings, r \in RegularListings}

(***************************************************************************)
(* Initial states                                                          *)
(***************************************************************************)
HexIdle == color_str = Null /\ hex_pc = "idle" /\ hex_result = FALSE

VtIdle == theme_path = ArtDirectory /\ vt_pc = "idle" /\ vt_result = NoResult

MainIdle ==
    /\ themes_dir_exists = FALSE /\ dir = <<>> /\ theme_files = <<>> /\ idx = 0
    /\ total_themes = 0 /\ valid_themes = 0 /\ total_warnings = 0 /\ total_errors = 0
    /\ output = <<>> /\ pc = "idle" /\ exit_code = NoExit

InitHex ==
    /\ color_str \in HexInputs /\ hex_pc = "call" /\ hex_result = FALSE
    /\ VtIdle /\ MainIdle

InitValidate ==
    /\ theme_path \in Artifacts /\ vt_pc = "call" /\ vt_result = NoResult
    /\ HexIdle /\ MainIdle

Init ==
    /\ \/ themes_dir_exists = TRUE /\ dir \in Listings
       \/ themes_dir_exists = FALSE /\ dir = <<>>
    /\ theme_files = <<>> /\ idx = 0
    /\ total_themes = 0 /\ valid_themes = 0 /\ total_warnings = 0 /\ total_errors = 0
    /\ output = <<>> /\ pc = "start" /\ exit_code = NoExit
    /\ HexIdle /\ VtIdle

(***************************************************************************)
(* Actions                                                                 *)
(***************************************************************************)
CallValidateHexColor ==
    /\ hex_pc = "call"
    /\ hex_result' = validate_hex_color(color_str)
    /\ hex_pc' = "returned"
    /\ UNCHANGED <<color_str, vtVars, mainVars>>

ValidateThemeFileReturns ==
    /\ vt_pc = "call"
    /\ ~validate_theme_file(theme_path).raised
    /\ vt_result' = validate_theme_file(theme_path)
    /\ vt_pc' = "returned"
    /\ UNCHANGED <<theme_path, hexVars, mainVars>>

\* an exception other than those caught around open/json.load propagates
ValidateThemeFileRaises ==
    /\ vt_pc = "call"
    /\ validate_theme_file(theme_path).raised
    /\ vt_result' = validate_theme_file(theme_path)
    /\ vt_pc' = "raised"
    /\ UNCHANGED <<theme_path, hexVars, mainVars>>

Banner == <<Line("banner", <<>>, NoMsg, 0)>>

\* themes_dir does not exist: message and return 1
DirMissing ==
    /\ pc = "start"
    /\ ~themes_dir_exists
    /\ output' = output \o Banner \o <<Line("dir_not_found", <<>>, NoMsg, 0)>>
    /\ exit_code' = 1
    /\ pc' = "done"
    /\ UNCHANGED <<themes_dir_exists, dir, theme_files, idx, total_themes,
                   valid_themes, total_warnings, total_errors, hexVars, vtVars>>

\* collect, sort, print the count, set the counters; glob yields the
\* entries in an order the file system chooses
Scan ==
    /\ pc = "start"
    /\ themes_dir_exists
    /\ \E listing \in {dir, Reverse(dir)} :
          theme_files' = Sort(Collect(listing))
    /\ total_themes' = Len(theme_files')
    /\ valid_themes' = 0 /\ total_warnings' = 0 /\ total_errors' = 0
    /\ idx' = 1
    /\ output' = output \o Banner \o <<Line("count", <<>>, NoMsg, Len(theme_files'))>>
    /\ pc' = "loop"
    /\ UNCHANGED <<themes_dir_exists, dir, exit_code, hexVars, vtVars>>

\* one iteration of `for theme_file in theme_files`
ProcessTheme ==
    /\ pc = "loop"
    /\ idx <= Len(theme_files)
    /\ LET theme_file == theme_files[idx]
           theme_name == Stem(theme_file.name)
           res == validate_theme_file(theme_file.art)
       IN /\ ~res.raised
          /\ output' = output \o <<Line("theme", theme_name, NoMsg, 0)>>
                              \o Report(theme_name, res.errors, res.warnings)
          /\ valid_themes' = CountValid(valid_themes, res.errors, res.warnings)
          /\ total_errors' = CountErrors(total_errors, res.errors, res.warnings)
          /\ total_warnings' = CountWarnings(total_warnings, res.errors, res.warnings)
    /\ idx' = idx + 1
    /\ UNCHANGED <<themes_dir_exists, dir, theme_files, total_themes, pc, exit_code,
                   hexVars, vtVars>>

\* validate_theme_file raises: the exception leaves main(), nothing more is
\* printed and main() returns no value
ProcessThemeRaises ==
    /\ pc = "loop"
    /\ idx <= Len(theme_files)
    /\ LET theme_file == theme_files[idx]
           res == validate_theme_file(theme_file.art)
       IN /\ res.raised
          /\ output' = output \o <<Line("theme", Stem(theme_file.name), NoMsg, 0)>>
    /\ pc' = "crashed"
    /\ UNCHANGED <<themes_dir_exists, dir, theme_files, idx, total_themes, valid_themes,
                   total_warnings, total_errors, exit_code, hexVars, vtVars>>

\* the summary block and the return value
Summarise ==
    /\ pc = "loop"
    /\ idx > Len(theme_files)
    /\ output' = output \o Summary(total_themes, valid_themes, total_warnings, total_errors)
    /\ exit_code' = ExitStatus(valid_themes, total_themes)
    /\ pc' = "done"
    /\ UNCHANGED <<themes_dir_exists, dir, theme_files, idx, total_themes, valid_themes,
                   total_warnings, total_errors, hexVars, vtVars>>

NextHex == CallValidateHexColor

NextValidate == ValidateThemeFileReturns \/ ValidateThemeFileRaises

Next == DirMissing \/ Scan \/ ProcessTheme \/ ProcessThemeRaises \/ Summarise

SpecHex == InitHex /\ [][NextHex]_vars

SpecValidate == InitValidate /\ [][NextValidate]_vars

Spec == Init /\ [][Next]_vars

(***************************************************************************)
(* Properties                                                              *)
(***************************************************************************)
\* the validation result of the i-th file of theme_files
Result(i) == validate_theme_file(theme_files[i].art)

\* the files whose loop iteration has completed
Processed == IF pc \in {"loop", "done", "crashed"} THEN 1..(idx - 1) ELSE {}

Count(seq, P(_)) == Cardinality({i \in 1..Len(seq) : P(seq[i])})

\* errors and warnings returned for the first n files of theme_files
RECURSIVE SumErrors(_)
SumErrors(n) == IF n = 0 THEN 0 ELSE Len(Result(n).errors) + SumErrors(n - 1)

RECURSIVE SumWarnings(_)
SumWarnings(n) == IF n = 0 THEN 0 ELSE Len(Result(n).warnings) + SumWarnings(n - 1)

BasicRoles == {basic_colors[i] : i \in 1..Len(basic_colors)}

\* the artifact given to validate_theme_file decoded to a record whose
\* colors field is a mapping, and the call has returned
ColorsIsMapping ==
    /\ vt_pc = "returned"
    /\ theme_path.read = "ok"
    /\ IsDict(theme_path.data)
    /\ HasKey(theme_path.data, "colors")
    /\ IsDict(Get(theme_path.data, "colors"))

ColorsOf == Get(theme_path.data, "colors")

\* C1: when main() returns after the summary, the exit status is 0 if
\* valid_themes = total_themes or valid_themes / total_themes * 100 >= 80,
\* and 1 otherwise; an empty corpus exits 0, 4 valid of 5 exits 0, 3 valid
\* of 5 exits 1.
C1_ExitStatus ==
    (pc = "done" /\ themes_dir_exists) =>
        /\ exit_code \in {0, 1}
        /\ exit_code = 0 <=>
              \/ valid_themes = total_themes
              \/ total_themes > 0 /\ 5 * valid_themes >= 4 * total_themes
        /\ total_themes = 0 => exit_code = 0
        /\ (total_themes = 5 /\ valid_themes = 4) => exit_code = 0
        /\ (total_themes = 5 /\ valid_themes = 3) => exit_code = 1

C1_Witness ==
    /\ pc = "done" /\ total_themes = 5 /\ valid_themes = 4 /\ exit_code = 0
    /\ Cardinality({i \in 1..5 : Result(i).errors = <<>>}) = 4

\* C2: after main() has processed all artifacts, total_errors is the sum of
\* the numbers of errors and total_warnings the sum of the numbers of
\* warnings the validations returned, artifacts with errors included.
C2_TotalsAreSums ==
    (pc = "done" /\ themes_dir_exists) =>
        /\ total_errors = SumErrors(Len(theme_files))
        /\ total_warnings = SumWarnings(Len(theme_files))

\* C3: validate_theme_file never raises, whatever the artifact holds.
C3_NeverRaises == vt_pc # "raised"

\* C4: an artifact that cannot be read or decoded yields one error and no
\* warning, is counted as invalid with one error, and the run goes on
\* through the later artifacts to the summary: it is never aborted.
C4_DecodeFailureRunCompletes ==
    LET failed == {i \in Processed : theme_files[i].art.read # "ok"} IN
    failed # {} =>
        /\ \A i \in failed : Len(Result(i).errors) = 1 /\ Result(i).warnings = <<>>
        /\ valid_themes <= Cardinality(Processed) - Cardinality(failed)
        /\ total_errors >= Cardinality(failed)
        /\ pc # "crashed"

\* C5: every error and every warning of every processed artifact is echoed
\* in the output with its marker, the warnings of an artifact that also
\* has errors included.
C5_AllProblemsEchoed ==
    \A i \in Processed :
        LET theme == Stem(theme_files[i].name)
            res == Result(i)
        IN /\ \A e \in 1..Len(res.errors) :
                 \E k \in 1..Len(output) : output[k] = Line("error", theme, res.errors[e], 0)
           /\ \A w \in 1..Len(res.warnings) :
                 \E k \in 1..Len(output) : output[k] = Line("warning", theme, res.warnings[w], 0)

\* C6 as stated: every entry of a colors mapping is given to the hex-color
\* checker exactly once, basic role or not.
C6_EachEntryCheckedOnce ==
    ColorsIsMapping =>
        \A e \in 1..Len(ColorsOf.m) :
            Count(vt_result.checks, LAMBDA c : c.role = ColorsOf.m[e].k) = 1

\* C6 amended: the full-mapping pass gives every entry to the hex-color
\* checker exactly once, basic role or not; the basic-role pass gives each
\* present basic role to it once more and no other entry, and nothing else
\* is checked.
C6_EachEntryCheckedOncePerPass ==
    ColorsIsMapping =>
        /\ \A e \in 1..Len(ColorsOf.m) :
              LET key == ColorsOf.m[e].k IN
              /\ Count(vt_result.checks, LAMBDA c : c.pass = "all" /\ c.role = key) = 1
              /\ Count(vt_result.checks, LAMBDA c : c.pass = "basic" /\ c.role = key)
                    = IF key \in BasicRoles THEN 1 ELSE 0
        /\ \A c \in 1..Len(vt_result.checks) : HasKey(ColorsOf, vt_result.checks[c].role)

C6_Witness ==
    /\ ColorsIsMapping
    /\ HasKey(ColorsOf, "primary") /\ HasKey(ColorsOf, "accent")
    /\ Len(vt_result.checks) = 3

\* C7: in a colors mapping a present basic role with a value failing the
\* hex-color check gives exactly two errors, any other role with a failing
\* value exactly one, a passing value none; an absent basic role gives
\* exactly one warning and no error.  {"primary": "red"} gives two color
\* errors and two warnings, {"primary": "#1e90ff"} none and two warnings.
C7_ColorErrorCounts ==
    ColorsIsMapping =>
        LET ColorErrors(r) == Count(vt_result.errors, LAMBDA m : m = Msg("invalid_color", r))
            ColorWarnings(r) ==
                Count(vt_result.warnings, LAMBDA m : m = Msg("missing_recommended_color", r))
            AllColorErrors == Count(vt_result.errors, LAMBDA m : m.kind = "invalid_color")
            AllColorWarnings ==
                Count(vt_result.warnings, LAMBDA m : m.kind = "missing_recommended_color")
        IN /\ \A r \in ColorRoles :
                IF HasKey(ColorsOf, r)
                THEN /\ ColorWarnings(r) = 0
                     /\ ColorErrors(r) = IF validate_hex_color(Get(ColorsOf, r)) THEN 0
                                         ELSE IF r \in BasicRoles THEN 2 ELSE 1
                ELSE /\ ColorErrors(r) = 0
                     /\ ColorWarnings(r) = IF r \in BasicRoles THEN 1 ELSE 0
           /\ \A m \in 1..Len(vt_result.errors) :
                vt_result.errors[m].kind # "missing_recommended_color"
           /\ ColorsOf.m = <<[k |-> "primary", v |-> Str(NotAColor)]>>
                => AllColorErrors = 2 /\ AllColorWarnings = 2
           /\ ColorsOf.m = <<[k |-> "primary", v |-> Str(HexOk)]>>
                => AllColorErrors = 0 /\ AllColorWarnings = 2

C7_Witness ==
    /\ ColorsIsMapping
    /\ ColorsOf.m = <<[k |-> "primary", v |-> Str(NotAColor)]>>
    /\ Count(vt_result.errors, LAMBDA m : m = Msg("invalid_color", "primary")) = 2
    /\ Count(vt_result.warnings, LAMBDA m : m.kind = "missing_recommended_color") = 2

\* C8: validate_hex_color returns true exactly for the strings of 7
\* characters that are '#' followed by 6 hexadecimal digits, and false for
\* every other string (such a string followed by a newline included) and
\* for every value that is not a string.
C8_HexColorExactlySevenChars ==
    hex_pc = "returned" =>
        hex_result = /\ color_str.t = "str"
                     /\ Len(color_str.s) = 7
                     /\ color_str.s[1] = "#"
                     /\ \A i \in 2..7 : color_str.s[i] \in HexDigit

\* C9: after any prefix of the artifacts, valid_themes is the number of
\* processed artifacts whose validation returned no error, whatever their
\* warnings; at the end valid plus invalid is the total.
C9_ValidCount ==
    pc \in {"loop", "done", "crashed"} =>
        LET valid == {i \in Processed : Result(i).errors = <<>>}
            invalid == {i \in Processed : Result(i).errors # <<>>}
        IN /\ valid_themes = Cardinality(valid)
           /\ (pc = "done" /\ themes_dir_exists) =>
                valid_themes + Cardinality(invalid) = total_themes

C9_Witness ==
    /\ pc = "done"
    /\ \E i, j \in Processed :
          /\ Result(i).errors = <<>> /\ Result(i).warnings # <<>>
          /\ Result(j).errors # <<>> /\ Result(j).warnings # <<>>
    /\ valid_themes >= 1 /\ valid_themes < total_themes

\* the names of the theme lines printed so far, in order
RECURSIVE ThemeLines(_)
ThemeLines(out) ==
    IF out = <<>> THEN <<>>
    ELSE IF Head(out).tag = "theme" THEN <<Head(out).theme>> \o ThemeLines(Tail(out))
    ELSE ThemeLines(Tail(out))

\* C10: the files main() goes through are the entries directly inside the
\* directory whose name ends in .json, each exactly once, without the
\* entry named exactly theme-schema.json, in ascending order of path; the
\* files are taken in that order.
C10_Enumeration ==
    (themes_dir_exists /\ pc \in {"loop", "done", "crashed"}) =>
        LET matching == {e \in {dir[i] : i \in 1..Len(dir)} :
                            /\ ~e.nested
                            /\ Len(e.name) >= 5
                            /\ SubSeq(e.name, Len(e.name) - 4, Len(e.name))
                                  = <<".", "j", "s", "o", "n">>
                            /\ e.name # SchemaName}
            started == IF pc = "crashed" THEN idx ELSE idx - 1
        IN /\ {theme_files[i] : i \in 1..Len(theme_files)} = matching
           /\ Len(theme_files) = Cardinality(matching)
           /\ \A i, j \in 1..Len(theme_files) :
                 i < j => StrLess(theme_files[i].name, theme_files[j].name)
           /\ ThemeLines(output) = [i \in 1..started |-> Stem(theme_files[i].name)]
           /\ pc = "done" => started = Len(theme_files)

C10_Witness ==
    /\ pc = "done"
    /\ \E i \in 1..Len(dir) : dir[i].name = SchemaName
    /\ \E i \in 1..Len(dir) : dir[i].nested
    /\ Len(theme_files) >= 4
    /\ Len(ThemeLines(output)) = Len(theme_files)

\* the tags of the lines printed so far
Tags == {output[k].tag : k \in 1..Len(output)}

SummaryTags == {"summary_total", "summary_valid", "summary_invalid", "summary_warnings",
                "summary_errors", "summary_rate"}

ArtifactTags == {"theme", "invalid", "valid_with_warnings", "fully_valid", "error", "warning"}

\* C11: when the themes directory does not exist main() returns 1 with no
\* artifact enumerated or validated and no per-artifact line or summary
\* printed; in every other case the run ends with the summary block and an
\* exit status of 0 or 1, so it never ends by an exception.
C11_MissingDirOrSummary ==
    /\ ~themes_dir_exists =>
          /\ theme_files = <<>> /\ idx = 0
          /\ Tags \cap (SummaryTags \cup ArtifactTags \cup {"count"}) = {}
          /\ pc = "done" => exit_code = 1
    /\ themes_dir_exists =>
          /\ pc # "crashed"
          /\ pc = "done" => (SummaryTags \subseteq Tags /\ exit_code \in {0, 1})

\* the artifact given to validate_theme_file decoded to a record (a
\* mapping) and the call has returned
RecordValidated ==
    /\ vt_pc = "returned"
    /\ theme_path.read = "ok"
    /\ IsDict(theme_path.data)

\* the kinds of message each required key can give once it is present
KindsOf(field) ==
    CASE field = "name" -> {"name_not_nonempty_string", "name_discouraged_chars"}
      [] field = "version" -> {"invalid_version"}
      [] field = "author" -> {"author_not_nonempty_string"}
      [] field = "colors" -> {"colors_not_object", "missing_recommended_color", "invalid_color"}

\* C12: in a decoded record each absent required key gives exactly one
\* error and no warning and none of the checks of that key runs (a present
\* key gives no such error); a record without colors has one error for
\* colors, no basic-role warning, no color-format error and no call of the
\* hex-color checker.
C12_AbsentRequiredKey ==
    RecordValidated =>
        \A f \in {"name", "version", "author", "colors"} :
            LET missing == Count(vt_result.errors, LAMBDA m : m = Msg("missing_required_field", f))
            IN IF HasKey(theme_path.data, f)
               THEN missing = 0
               ELSE /\ missing = 1
                    /\ Count(vt_result.errors, LAMBDA m : m.kind \in KindsOf(f)) = 0
                    /\ Count(vt_result.warnings,
                             LAMBDA m : m.kind \in KindsOf(f) \/ m.field = f) = 0
                    /\ f = "colors" => vt_result.checks = <<>>

C12_Witness ==
    /\ RecordValidated
    /\ ~HasKey(theme_path.data, "colors")
    /\ HasKey(theme_path.data, "name")
    /\ Count(vt_result.errors, LAMBDA m : m.field = "colors") = 1
    /\ Len(vt_result.warnings) = 1

\* <<m>> when cond holds, else nothing
When(cond, m) == IF cond THEN <<m>> ELSE <<>>

Blank(v) == ~IsStr(v) \/ \A i \in 1..Len(v.s) : v.s[i] \in Whitespace

\* the invalid-color errors of the entries of a mapping, in declared order
RECURSIVE EntryErrors(_)
EntryErrors(items) ==
    IF items = <<>> THEN <<>>
    ELSE When(~validate_hex_color(Head(items).v), Msg("invalid_color", Head(items).k))
            \o EntryErrors(Tail(items))

\* C13: for a decoded record the errors are, in this order, the missing
\* field errors for name, version, author, colors, then the name error,
\* the version error, the author error, then for colors either the single
\* not-a-mapping error or the basic-role errors for primary, background,
\* foreground followed by the per-entry errors in declared key order; the
\* warnings are the name warning followed by the missing-basic-role
\* warnings for primary, background, foreground.
C13_MessageOrder ==
    RecordValidated =>
        LET d == theme_path.data
            Has(f) == HasKey(d, f)
            Missing(f) == When(~Has(f), Msg("missing_required_field", f))
            nameBad == Has("name") /\ Blank(Get(d, "name"))
            NameError == When(nameBad, Msg("name_not_nonempty_string", "name"))
            NameWarning ==
                When(Has("name") /\ ~nameBad
                        /\ ~\E body \in DollarEnds(Get(d, "name").s) : NameBody(body),
                     Msg("name_discouraged_chars", "name"))
            VersionError ==
                When(Has("version") /\ ~validate_semver(Get(d, "version")),
                     Msg("invalid_version", "version"))
            AuthorError ==
                When(Has("author") /\ Blank(Get(d, "author")),
                     Msg("author_not_nonempty_string", "author"))
            isMap == Has("colors") /\ IsDict(Get(d, "colors"))
            BasicError(r) ==
                When(isMap /\ HasKey(Get(d, "colors"), r)
                        /\ ~validate_hex_color(Get(Get(d, "colors"), r)),
                     Msg("invalid_color", r))
            BasicWarning(r) ==
                When(isMap /\ ~HasKey(Get(d, "colors"), r), Msg("missing_recommended_color", r))
            ColorsErrors ==
                IF ~Has("colors") THEN <<>>
                ELSE IF ~isMap THEN <<Msg("colors_not_object", "colors")>>
                ELSE BasicError("primary") \o BasicError("background") \o BasicError("foreground")
                        \o EntryErrors(Get(d, "colors").m)
        IN /\ vt_result.errors =
                Missing("name") \o Missing("version") \o Missing("author") \o Missing("colors")
                   \o NameError \o VersionError \o AuthorError \o ColorsErrors
           /\ vt_result.warnings =
                NameWarning \o BasicWarning("primary") \o BasicWarning("background")
                   \o BasicWarning("foreground")
           /\ ~isMap => vt_result.checks = <<>>

\* a missing field, a version error, a basic-role error and two per-entry
\* errors declared accent first; a name warning and two role warnings
C13_Witness ==
    /\ RecordValidated
    /\ vt_result.errors = << Msg("missing_required_field", "author"),
                             Msg("invalid_version", "version"),
                             Msg("invalid_color", "primary"),
                             Msg("invalid_color", "accent"),
                             Msg("invalid_color", "primary") >>
    /\ vt_result.warnings = << Msg("name_discouraged_chars", "name"),
                               Msg("missing_recommended_color", "background"),
                               Msg("missing_recommended_color", "foreground") >>

====
